---- MODULE Spec2Model ----
(***************************************************************************)
(* Model of the streaming session orchestrator (src/streamer.py,           *)
(* class RTMPStreamer) and of the status reader of the dashboard           *)
(* (src/dashboard.py, get_stream_status).                                  *)
(*                                                                         *)
(* The orchestrator is one Python object driven by the main thread; a      *)
(* SIGTERM/SIGINT handler runs nested on the main thread's stack between   *)
(* two statements.  Each thread is modelled by its call stack; an action   *)
(* executes one statement of the frame on top of a stack.                  *)
(***************************************************************************)
EXTENDS Integers, Sequences, FiniteSets, TLC

\* ------------------------------------------------------------------ bounds
MaxSignals == 2   \* termination signals delivered in one run
MaxClock == 2     \* readings of datetime.now() that are told apart
MaxCalls == 3     \* requests issued by the control-surface driver
MaxReads == 2     \* reads of the status file by the dashboard
MaxSaves == 1     \* configurations saved while the program runs

\* ------------------------------------------------- json.dump(status, indent=2)
\* A file is a sequence of characters.  A character is <<kind, value, i>>:
\* the i-th character of the JSON text of an atom (a key, a literal, a
\* number, a string), one punctuation mark, or one blank (space or newline).
FloatWidth == 8        \* repr of total_seconds(), e.g. 0.000234
TimestampWidth == 28   \* "YYYY-MM-DDTHH:MM:SS.ffffff" with its quotes

RECURSIVE Digits(_)
Digits(n) == IF n < 10 THEN 1 ELSE 1 + Digits(n \div 10)

KeyWidth(k) ==
    CASE k = "streaming" -> 11
      [] k = "start_time" -> 12
      [] k = "uptime_seconds" -> 16
      [] k = "resolution" -> 12
      [] k = "framerate" -> 11
      [] k = "bitrate" -> 9

Keys == {"streaming", "start_time", "uptime_seconds", "resolution", "framerate", "bitrate"}
Puncts == {"{", "}", "[", "]", ",", ":"}

Width(kind, val) ==
    CASE kind \in Keys -> KeyWidth(kind)
      [] kind = "true" -> 4
      [] kind = "false" -> 5
      [] kind = "null" -> 4
      [] kind = "ts" -> TimestampWidth
      [] kind = "float" -> FloatWidth
      [] kind = "int" -> Digits(val)
      [] OTHER -> 1

Atom(kind, val) == [i \in 1..Width(kind, val) |-> <<kind, val, i>>]
Blank == <<"ws", 0, 1>>
Blanks(n) == [i \in 1..n |-> Blank]
\* newline_indent of json.encoder at nesting level l, indent=2
NewlineIndent(l) == Blanks(1 + 2 * l)
ItemSeparator(l) == Atom(",", 0) \o NewlineIndent(l)
KeySeparator == Atom(":", 0) \o Blanks(1)

\* The chunks json.dump hands to fp.write, in order, for the status dict.
StatusChunks(s) ==
    << Atom("{", 0), NewlineIndent(1),
       Atom("streaming", 0), KeySeparator,
       IF s.streaming THEN Atom("true", 0) ELSE Atom("false", 0),
       ItemSeparator(1), Atom("start_time", 0), KeySeparator,
       IF s.start_time # 0 THEN Atom("ts", s.start_time) ELSE Atom("null", 0),
       ItemSeparator(1), Atom("uptime_seconds", 0), KeySeparator,
       IF s.start_time # 0 THEN Atom("float", s.uptime) ELSE Atom("int", 0),
       ItemSeparator(1), Atom("resolution", 0), KeySeparator,
       Atom("[", 0) \o NewlineIndent(2) \o Atom("int", s.resolution[1]),
       ItemSeparator(2) \o Atom("int", s.resolution[2]),
       NewlineIndent(1), Atom("]", 0),
       ItemSeparator(1), Atom("framerate", 0), KeySeparator,
       Atom("int", s.framerate),
       ItemSeparator(1), Atom("bitrate", 0), KeySeparator,
       Atom("int", s.bitrate),
       NewlineIndent(0), Atom("}", 0) >>

RECURSIVE Concat(_, _)
Concat(chunks, n) == IF n = 0 THEN <<>> ELSE Concat(chunks, n - 1) \o chunks[n]

\* The whole text of a status snapshot.
Dump(s) == Concat(StatusChunks(s), Len(StatusChunks(s)))

\* A buffered file object flushed at its own offset 0 into the file: the
\* bytes it holds replace the same positions, the rest of the file stays.
Overlay(data, buf) ==
    IF Len(buf) >= Len(data) THEN buf
    ELSE buf \o SubSeq(data, Len(buf) + 1, Len(data))

\* What has reached the file since open(..., 'w') last truncated it: the
\* buffers flushed into it, oldest first; a buffer is the first k chunks of
\* the dump of a status dict st.
Buffer(st, k) == Concat(StatusChunks(st), k)

RECURSIVE Flushed(_, _)
Flushed(ws, n) ==
    IF n = 0 THEN <<>>
    ELSE Overlay(Flushed(ws, n - 1), Buffer(ws[n].st, ws[n].k))

\* The text of a file.
Text(f) == Flushed(f.flushed, Len(f.flushed))

\* ------------------------------------------------------------ json.load
BadTok == <<"bad", 0>>

WholeAtom(d, i) ==
    LET w == Width(d[i][1], d[i][2]) IN
    /\ d[i][3] = 1
    /\ i + w - 1 <= Len(d)
    /\ \A j \in 1..w : d[i + j - 1] = <<d[i][1], d[i][2], j>>

\* The tokens of a text; a character that completes no atom ends the scan
\* with BadTok.
RECURSIVE Lex(_, _)
Lex(d, i) ==
    IF i > Len(d) THEN <<>>
    ELSE IF d[i][1] = "ws" THEN Lex(d, i + 1)
    ELSE IF WholeAtom(d, i)
         THEN << <<d[i][1], d[i][2]>> >> \o Lex(d, i + Width(d[i][1], d[i][2]))
         ELSE <<BadTok>>

IsScalar(tok) == tok[1] \notin Puncts /\ tok # BadTok

\* Index of the token after the list that opens at toks[i]; 0 when malformed.
RECURSIVE ListEnd(_, _)
ListEnd(toks, i) ==
    \* i is the index of an expected element
    IF i + 1 > Len(toks) \/ ~IsScalar(toks[i]) THEN 0
    ELSE IF toks[i + 1][1] = "]" THEN i + 2
    ELSE IF toks[i + 1][1] = "," THEN ListEnd(toks, i + 2)
    ELSE 0

Absent == <<"absent", 0>>
NoObject == [ok |-> FALSE, streaming |-> Absent, start_time |-> Absent,
             uptime_seconds |-> Absent, resolution |-> Absent,
             framerate |-> Absent, bitrate |-> Absent]
EmptyObject == [NoObject EXCEPT !.ok = TRUE]

\* Members of an object from toks[i] on, a key expected at i; the last
\* value of a repeated key wins.
RECURSIVE Members(_, _, _)
Members(toks, i, acc) ==
    IF i + 3 > Len(toks) \/ toks[i][1] \notin Keys \/ toks[i + 1][1] # ":"
    THEN NoObject
    ELSE LET isList == toks[i + 2][1] = "["
             after == IF isList THEN ListEnd(toks, i + 3)
                      ELSE IF IsScalar(toks[i + 2]) THEN i + 3 ELSE 0
             val == IF isList THEN <<"list", 0>> ELSE toks[i + 2]
             acc2 == [acc EXCEPT ![toks[i][1]] = val]
         IN IF after = 0 \/ after > Len(toks) THEN NoObject
            ELSE IF toks[after][1] = "}"
                 THEN IF after = Len(toks) THEN acc2 ELSE NoObject
            ELSE IF toks[after][1] = "," THEN Members(toks, after + 1, acc2)
            ELSE NoObject

\* json.load of a text: the object read, or ok = FALSE (json.load raises).
Load(d) ==
    LET toks == Lex(d, 1) IN
    IF Len(toks) < 2 \/ toks[1][1] # "{" THEN NoObject
    ELSE IF Len(toks) = 2 THEN (IF toks[2][1] = "}" THEN EmptyObject ELSE NoObject)
    ELSE Members(toks, 2, EmptyObject)

\* ------------------------------------------------------------------ state
Threads == {"main", "api"}

VARIABLES
    config,       \* self.config
    camera,       \* self.camera: 0 is None, else an index into cams
    output,       \* self.output: "none" or "ffmpeg"
    streaming,    \* self.streaming
    start_time,   \* self.start_time: 0 is None, else a clock reading
    cams,         \* every Picamera2 object constructed, with its release counts
    proc,         \* the publish (ffmpeg) process: "none", "running", "stopped", "exited"
    status_file,  \* /home/pi/streamer/status.json: [exists, flushed]
    stack,        \* per thread, the call stack (top is the last frame)
    ret,          \* per thread, the value the last call returned
    exc,          \* the exception unwinding the main thread: "none" or "SystemExit"
    exited,       \* the process has ended (the stacks stay as they were)
    clock,        \* datetime.now()
    signals,      \* termination signals delivered so far
    calls,        \* requests issued by the control-surface driver
    req,          \* per thread, the driver's current or last request
    fault,        \* the external call that failed during the current request
    faulty,       \* some external call has failed in this run
    seen,         \* what the dashboard's last get_stream_status read
    reads,        \* status reads done by the dashboard
    config_file,  \* /home/pi/streamer/config.json: [kind, items]
    builds,       \* the last two results of build_ffmpeg_command, each with the config it read
    before,       \* self.config and the config file when the driver issued its request
    reply         \* the dashboard's last answer to POST /api/config

vars == <<config, camera, output, streaming, start_time, cams, proc, status_file,
          stack, ret, exc, exited, clock, signals, calls, req, fault, faulty,
          seen, reads, config_file, builds, before, reply>>

DefaultConfig ==
    [rtmp_url |-> "rtmp://a.rtmp.youtube.com/live2/",
     stream_key |-> "YOUR_STREAM_KEY_HERE",
     resolution |-> <<1920, 1080>>,
     framerate |-> 30,
     bitrate |-> 2500000,
     gop_size |-> 60,
     preset |-> "medium",
     audio_enabled |-> FALSE,
     audio_source |-> "hw:1,0"]

NoStatus == [streaming |-> FALSE, start_time |-> 0, uptime |-> 0,
             resolution |-> <<0, 0>>, framerate |-> 0, bitrate |-> 0]

\* ------------------------------------------------------- the config file
\* A JSON value is written by type: an int, a string, a bool or a list of
\* ints.  An item is a member of a JSON object (key and value), or an element
\* of a JSON array: len is the length of the element taken as a sequence
\* (2 for a two-element list, whose first element is key and second value;
\* 0 for an element that is no sequence, such as a number).
IntKeys == {"framerate", "bitrate", "gop_size"}
StrKeys == {"rtmp_url", "stream_key", "preset", "audio_source"}
ConfigKeys == <<"rtmp_url", "stream_key", "resolution", "framerate", "bitrate",
                "gop_size", "preset", "audio_enabled", "audio_source">>

Item(len, k, v) ==
    [len |-> len, key |-> k,
     n |-> IF k \in IntKeys THEN v ELSE 0,
     s |-> IF k \in StrKeys THEN v ELSE "",
     b |-> IF k = "audio_enabled" THEN v ELSE FALSE,
     l |-> IF k = "resolution" THEN v ELSE <<>>]
Member(k, v) == Item(2, k, v)
Scalar == Item(0, "", 0)

Value(m) ==
    CASE m.key \in IntKeys -> m.n
      [] m.key \in StrKeys -> m.s
      [] m.key = "audio_enabled" -> m.b
      [] m.key = "resolution" -> m.l

\* A file: absent, empty (zero bytes), garbage (text that is no JSON), a
\* JSON object, a JSON array, or a JSON scalar (a number, null, true).
File(kind, items) == [kind |-> kind, items |-> items]
NoFile == File("absent", <<>>)

\* json.dump of a config dict: an object with every key of the dict.
DumpConfig(c) == File("object", [i \in 1..Len(ConfigKeys) |-> Member(ConfigKeys[i], c[ConfigKeys[i]])])

\* dict.update(items): the items are applied in order; the first n of them.
RECURSIVE Update(_, _, _)
Update(c, items, n) ==
    IF n = 0 THEN c
    ELSE [Update(c, items, n - 1) EXCEPT ![items[n].key] = Value(items[n])]

\* The number of leading elements dict.update takes before it raises: every
\* element must be a sequence of length 2.
RECURSIVE Taken(_, _)
Taken(items, i) ==
    IF i > Len(items) \/ items[i].len # 2 THEN i - 1 ELSE Taken(items, i + 1)

\* dict.get(key): the value of the last member with that key; "" stands
\* for None and for the empty string, which `not` treats alike.
RECURSIVE Get(_, _, _)
Get(items, key, n) ==
    IF n = 0 THEN ""
    ELSE IF items[n].key = key THEN items[n].s
    ELSE Get(items, key, n - 1)

\* lines 35-57: the defaults, updated with what json.load returns; any
\* exception (open, json.load, dict.update) is logged and the dict, as far as
\* update got, is returned.
load_config(f, readable) ==
    IF f.kind = "absent" \/ ~readable \/ f.kind \in {"empty", "garbage", "scalar"}
    THEN DefaultConfig
    ELSE Update(DefaultConfig, f.items, Taken(f.items, 1))

\* ------------------------------------- RTMPStreamer.build_ffmpeg_command
\* An argument of the command: a word, str() of an int (its decimal
\* digits), "<w>x<h>", or the url followed by the key.
RECURSIVE Str(_)
Str(n) == IF n < 10 THEN <<n>> ELSE Append(Str(n \div 10), n % 10)
RECURSIVE IntOf(_)
IntOf(ds) == IF ds = <<>> THEN 0 ELSE 10 * IntOf(SubSeq(ds, 1, Len(ds) - 1)) + ds[Len(ds)]

Word(w) == [text |-> w, tail |-> "", digits |-> <<>>, more |-> <<>>]
Number(n) == [text |-> "", tail |-> "", digits |-> Str(n), more |-> <<>>]
Size(r) == [text |-> "x", tail |-> "", digits |-> Str(r[1]), more |-> Str(r[2])]
Url(u, key) == [text |-> u, tail |-> key, digits |-> <<>>, more |-> <<>>]

\* lines 118-125
InputArgs(c) ==
    << Word("ffmpeg"), Word("-f"), Word("rawvideo"), Word("-pix_fmt"), Word("rgb24"),
       Word("-s"), Size(c.resolution), Word("-r"), Number(c.framerate),
       Word("-i"), Word("-") >>

\* lines 128-134
AudioInputArgs(c) ==
    IF c.audio_enabled
    THEN << Word("-f"), Word("alsa"), Word("-i"), Word(c.audio_source),
            Word("-ac"), Number(2), Word("-ar"), Number(44100) >>
    ELSE <<>>

\* the video settings with -bufsize equal to the bitrate
VideoArgsOneBuffer(c) ==
    << Word("-c:v"), Word("libx264"), Word("-preset"), Word(c.preset),
       Word("-b:v"), Number(c.bitrate), Word("-maxrate"), Number(c.bitrate),
       Word("-bufsize"), Number(c.bitrate),
       Word("-pix_fmt"), Word("yuv420p"),
       Word("-g"), Number(c.gop_size), Word("-keyint_min"), Number(c.gop_size),
       Word("-sc_threshold"), Number(0) >>

\* lines 137-147
VideoArgs(c) ==
    << Word("-c:v"), Word("libx264"), Word("-preset"), Word(c.preset),
       Word("-b:v"), Number(c.bitrate), Word("-maxrate"), Number(c.bitrate),
       Word("-bufsize"), Number(c.bitrate * 2),
       Word("-pix_fmt"), Word("yuv420p"),
       Word("-g"), Number(c.gop_size), Word("-keyint_min"), Number(c.gop_size),
       Word("-sc_threshold"), Number(0) >>

\* lines 150-154
AudioArgs(c) ==
    IF c.audio_enabled
    THEN << Word("-c:a"), Word("aac"), Word("-b:a"), Word("128k") >>
    ELSE <<>>

\* lines 157-161
OutputArgs(c) ==
    << Word("-f"), Word("flv"), Word("-flvflags"), Word("no_duration_filesize"),
       Url(c.rtmp_url, c.stream_key) >>

build_ffmpeg_command(c) ==
    InputArgs(c) \o AudioInputArgs(c) \o VideoArgs(c) \o AudioArgs(c) \o OutputArgs(c)

\* One more result of build_ffmpeg_command, the last two being kept.
Built(c) ==
    LET all == Append(builds, [config |-> c, cmd |-> build_ffmpeg_command(c)])
    IN IF Len(all) > 2 THEN SubSeq(all, Len(all) - 1, Len(all)) ELSE all

\* A frame: the function, its next statement, the locals of write_status
\* (the status dict st, and the number k of its chunks that json.dump has
\* written into the open file object's buffer), and the argument new_config
\* of save_config.
Frame(fn, pc) == [fn |-> fn, pc |-> pc, st |-> NoStatus, k |-> 0, arg |-> <<>>]

Entry(fn) ==
    CASE fn = "run" -> "r268"
      [] fn = "start_stream" -> "s168"
      [] fn = "setup_camera" -> "c93"
      [] fn = "stop_stream" -> "t209"
      [] fn = "cleanup" -> "u229"
      [] fn = "write_status" -> "w242"
      [] fn = "signal_handler" -> "h260"
      [] fn = "save_config" -> "v62"
      [] OTHER -> "idle"

NewCam == [open |-> TRUE, stop_recording |-> 0, stop |-> 0, close |-> 0]

Top(t) == stack[t][Len(stack[t])]
Pop(s) == SubSeq(s, 1, Len(s) - 1)
SetTop(s, f) == [s EXCEPT ![Len(s)] = f]

\* Thread t is about to execute the statement pc of fn.
At(t, fn, pc) ==
    /\ ~exited
    /\ stack[t] # <<>>
    /\ Top(t).fn = fn
    /\ Top(t).pc = pc
    /\ t = "main" => exc = "none"

Goto(t, pc) == stack' = [stack EXCEPT ![t] = SetTop(@, [Top(t) EXCEPT !.pc = pc])]

\* Call fn; the caller resumes at retpc.
Call(t, fn, retpc) ==
    stack' = [stack EXCEPT ![t] =
                 Append(SetTop(@, [Top(t) EXCEPT !.pc = retpc]), Frame(fn, Entry(fn)))]

Return(t, v) ==
    /\ stack' = [stack EXCEPT ![t] = Pop(@)]
    /\ ret' = [ret EXCEPT ![t] = v]

Tick(c) == IF c < MaxClock THEN c + 1 ELSE c

\* An external call fails: remembered for the checks only.
Failed(name) == fault' = name /\ faulty' = TRUE
NoFailure == UNCHANGED <<fault, faulty>>

\* The fields of a new RTMPStreamer (lines 22-27, self.config before line 22
\* loads it), the threads at `frames`.
Started(frames) ==
    /\ config = DefaultConfig
    /\ camera = 0
    /\ output = "none"
    /\ streaming = FALSE
    /\ start_time = 0
    /\ cams = <<>>
    /\ proc = "none"
    /\ status_file = [exists |-> FALSE, flushed |-> <<>>]
    /\ stack = frames
    /\ ret = [t \in Threads |-> "None"]
    /\ exc = "none"
    /\ exited = FALSE
    /\ clock = 1
    /\ signals = 0
    /\ calls = 0
    /\ req = [t \in Threads |-> "none"]
    /\ fault = "none"
    /\ faulty = FALSE
    /\ seen = [from |-> "none", file |-> [exists |-> FALSE, flushed |-> <<>>], uptime |-> 0]
    /\ reads = 0
    /\ builds = <<>>
    /\ before = [config |-> DefaultConfig, config_file |-> NoFile]
    /\ reply = [code |-> 0, body |-> <<>>]

\* The state after RTMPStreamer() (lines 20-33) with no config file, the
\* threads at `frames`.
Constructed(frames) ==
    /\ config_file = NoFile
    /\ Started(frames)

\* lines 282-284: streamer = RTMPStreamer(); streamer.run()
Init ==
    Constructed([t \in Threads |-> IF t = "main" THEN <<Frame("run", Entry("run"))>>
                                   ELSE <<>>])

\* What a statement that only moves control leaves alone.
object == <<config, camera, output, streaming, start_time>>
devices == <<cams, proc>>
driver == <<calls, req>>
reader == <<seen, reads>>
store == <<config_file, builds, before, reply>>
control == <<exc, exited, signals>>

\* ------------------------------------------------------------ RTMPStreamer.run
\* line 268: if not self.start_stream()
run_start(t) ==
    /\ At(t, "run", "r268")
    /\ Call(t, "start_stream", "r269")
    /\ UNCHANGED <<object, devices, status_file, ret, control, clock, driver,
                   fault, faulty, reader, store>>

\* lines 268-270: a failed start ends run(), and with it the process
run_started(t) ==
    /\ At(t, "run", "r269")
    /\ IF ret[t] = "True"
       THEN Goto(t, "r274") /\ UNCHANGED exited
       ELSE UNCHANGED stack /\ exited' = TRUE
    /\ UNCHANGED <<object, devices, status_file, ret, exc, signals, clock, driver,
                   fault, faulty, reader, store>>

\* lines 274-275: while self.streaming: self.write_status()
run_loop(t) ==
    /\ At(t, "run", "r274")
    /\ IF streaming THEN Call(t, "write_status", "r276") ELSE Goto(t, "r280")
    /\ UNCHANGED <<object, devices, status_file, ret, control, clock, driver,
                   fault, faulty, reader, store>>

\* line 276: time.sleep(10)
run_sleep(t) ==
    /\ At(t, "run", "r276")
    /\ clock' = Tick(clock)
    /\ Goto(t, "r274")
    /\ UNCHANGED <<object, devices, status_file, ret, control, driver,
                   fault, faulty, reader, store>>

\* lines 279-280: finally: self.stop_stream()
run_finally(t) ==
    /\ At(t, "run", "r280")
    /\ Call(t, "stop_stream", "r281")
    /\ UNCHANGED <<object, devices, status_file, ret, control, clock, driver,
                   fault, faulty, reader, store>>

\* the end of the finally block: the pending SystemExit, or the end of
\* run(), ends the process
run_end(t) ==
    /\ At(t, "run", "r281")
    /\ exited' = TRUE
    /\ UNCHANGED <<stack, object, devices, status_file, ret, exc, signals, clock, driver,
                   fault, faulty, reader, store>>

\* --------------------------------------------------- RTMPStreamer.start_stream
\* start_stream without its guard (lines 168-170 left out)
start_stream_guard_unchecked(t) ==
    /\ At(t, "start_stream", "s168")
    /\ Goto(t, "s174")
    /\ UNCHANGED <<object, devices, status_file, ret, control, clock, driver,
                   fault, faulty, reader, store>>

\* lines 168-170: if self.streaming: return False
start_stream_guard(t) ==
    /\ At(t, "start_stream", "s168")
    /\ IF streaming
       THEN Return(t, "False")
       ELSE Goto(t, "s174") /\ UNCHANGED ret
    /\ UNCHANGED <<object, devices, status_file, control, clock, driver,
                   fault, faulty, reader, store>>

\* line 174: self.setup_camera()
start_stream_setup(t) ==
    /\ At(t, "start_stream", "s174")
    /\ Call(t, "setup_camera", "s175")
    /\ UNCHANGED <<object, devices, status_file, ret, control, clock, driver,
                   fault, faulty, reader, store>>

\* lines 174-175: if not self.setup_camera(): return False
start_stream_setup_done(t) ==
    /\ At(t, "start_stream", "s175")
    /\ IF ret[t] = "True"
       THEN Goto(t, "s182") /\ UNCHANGED ret
       ELSE Return(t, "False")
    /\ UNCHANGED <<object, devices, status_file, control, clock, driver,
                   fault, faulty, reader, store>>

\* lines 178-185: ffmpeg_cmd = self.build_ffmpeg_command();
\* self.output = FfmpegOutput(...); a raise goes to line 202
start_stream_output(t) ==
    /\ At(t, "start_stream", "s182")
    /\ builds' = Built(config)
    /\ \/ /\ output' = "ffmpeg"
          /\ Goto(t, "s188")
          /\ NoFailure
       \/ /\ Failed("FfmpegOutput")
          /\ Goto(t, "s203")
          /\ UNCHANGED output
    /\ UNCHANGED <<config, camera, streaming, start_time, devices, status_file, ret,
                   control, clock, driver, reader, config_file, before, reply>>

\* line 188: self.camera.start(); on None it raises AttributeError
start_stream_camera_start(t) ==
    /\ At(t, "start_stream", "s188")
    /\ \/ /\ camera # 0
          /\ Goto(t, "s189")
          /\ NoFailure
       \/ /\ Failed("start")
          /\ Goto(t, "s203")
    /\ UNCHANGED <<object, devices, status_file, ret, control, clock, driver, reader,
                   store>>

\* line 189: time.sleep(2)
start_stream_warmup(t) ==
    /\ At(t, "start_stream", "s189")
    /\ clock' = Tick(clock)
    /\ Goto(t, "s191")
    /\ UNCHANGED <<object, devices, status_file, ret, control, driver,
                   fault, faulty, reader, store>>

\* line 191: self.camera.start_recording(self.output) starts the publish process
start_stream_recording(t) ==
    /\ At(t, "start_stream", "s191")
    /\ \/ /\ camera # 0
          /\ proc' = "running"
          /\ Goto(t, "s193")
          /\ NoFailure
       \/ /\ Failed("start_recording")
          /\ Goto(t, "s203")
          /\ UNCHANGED proc
    /\ UNCHANGED <<object, cams, status_file, ret, control, clock, driver, reader,
                   store>>

\* line 193: self.streaming = True
start_stream_set_streaming(t) ==
    /\ At(t, "start_stream", "s193")
    /\ streaming' = TRUE
    /\ Goto(t, "s194")
    /\ UNCHANGED <<config, camera, output, start_time, devices, status_file, ret,
                   control, clock, driver, fault, faulty, reader, store>>

\* line 194: self.start_time = datetime.now()
start_stream_set_start_time(t) ==
    /\ At(t, "start_stream", "s194")
    /\ start_time' = clock
    /\ Goto(t, "s198")
    /\ UNCHANGED <<config, camera, output, streaming, devices, status_file, ret,
                   control, clock, driver, fault, faulty, reader, store>>

\* line 198: self.write_status()
start_stream_write_status(t) ==
    /\ At(t, "start_stream", "s198")
    /\ Call(t, "write_status", "s200")
    /\ UNCHANGED <<object, devices, status_file, ret, control, clock, driver,
                   fault, faulty, reader, store>>

\* line 200: return True
start_stream_return(t) ==
    /\ At(t, "start_stream", "s200")
    /\ Return(t, "True")
    /\ UNCHANGED <<object, devices, status_file, control, clock, driver,
                   fault, faulty, reader, store>>

\* the except clause without its cleanup (line 204 left out)
start_stream_except_no_cleanup(t) ==
    /\ At(t, "start_stream", "s203")
    /\ Goto(t, "s205")
    /\ UNCHANGED <<object, devices, status_file, ret, control, clock, driver,
                   fault, faulty, reader, store>>

\* lines 202-204: except Exception: self.cleanup()
start_stream_except(t) ==
    /\ At(t, "start_stream", "s203")
    /\ Call(t, "cleanup", "s205")
    /\ UNCHANGED <<object, devices, status_file, ret, control, clock, driver,
                   fault, faulty, reader, store>>

\* line 205: return False
start_stream_failed(t) ==
    /\ At(t, "start_stream", "s205")
    /\ Return(t, "False")
    /\ UNCHANGED <<object, devices, status_file, control, clock, driver,
                   fault, faulty, reader, store>>

\* --------------------------------------------------- RTMPStreamer.setup_camera
\* line 93: self.camera = Picamera2(); a raise returns False (lines 110-112)
setup_camera_open(t) ==
    /\ At(t, "setup_camera", "c93")
    /\ \/ /\ cams' = Append(cams, NewCam)
          /\ camera' = Len(cams) + 1
          /\ Goto(t, "c96")
          /\ NoFailure
          /\ UNCHANGED ret
       \/ /\ Failed("Picamera2")
          /\ Return(t, "False")
          /\ UNCHANGED <<cams, camera>>
    /\ UNCHANGED <<config, output, streaming, start_time, proc, status_file,
                   control, clock, driver, reader, store>>

\* lines 96-108: create_video_configuration, configure, return True; a raise
\* returns False (lines 110-112)
setup_camera_configure(t) ==
    /\ At(t, "setup_camera", "c96")
    /\ \/ /\ camera # 0
          /\ Return(t, "True")
          /\ NoFailure
       \/ /\ Failed("configure")
          /\ Return(t, "False")
    /\ UNCHANGED <<object, devices, status_file, control, clock, driver, reader,
                   store>>

\* ---------------------------------------------------- RTMPStreamer.stop_stream
\* stop_stream without its guard (lines 209-211 left out)
stop_stream_guard_unchecked(t) ==
    /\ At(t, "stop_stream", "t209")
    /\ Goto(t, "t215")
    /\ UNCHANGED <<object, devices, status_file, ret, control, clock, driver,
                   fault, faulty, reader, store>>

\* lines 209-211: if not self.streaming: return False
stop_stream_guard(t) ==
    /\ At(t, "stop_stream", "t209")
    /\ IF ~streaming
       THEN Return(t, "False")
       ELSE Goto(t, "t215") /\ UNCHANGED ret
    /\ UNCHANGED <<object, devices, status_file, control, clock, driver,
                   fault, faulty, reader, store>>

\* line 215: self.cleanup()
stop_stream_cleanup(t) ==
    /\ At(t, "stop_stream", "t215")
    /\ Call(t, "cleanup", "t216")
    /\ UNCHANGED <<object, devices, status_file, ret, control, clock, driver,
                   fault, faulty, reader, store>>

\* line 216: self.streaming = False
stop_stream_clear_streaming(t) ==
    /\ At(t, "stop_stream", "t216")
    /\ streaming' = FALSE
    /\ Goto(t, "t217")
    /\ UNCHANGED <<config, camera, output, start_time, devices, status_file, ret,
                   control, clock, driver, fault, faulty, reader, store>>

\* line 217: self.start_time = None
stop_stream_clear_start_time(t) ==
    /\ At(t, "stop_stream", "t217")
    /\ start_time' = 0
    /\ Goto(t, "t219")
    /\ UNCHANGED <<config, camera, output, streaming, devices, status_file, ret,
                   control, clock, driver, fault, faulty, reader, store>>

\* line 219: self.write_status()
stop_stream_write_status(t) ==
    /\ At(t, "stop_stream", "t219")
    /\ Call(t, "write_status", "t220")
    /\ UNCHANGED <<object, devices, status_file, ret, control, clock, driver,
                   fault, faulty, reader, store>>

\* line 220: return True
stop_stream_return(t) ==
    /\ At(t, "stop_stream", "t220")
    /\ Return(t, "True")
    /\ UNCHANGED <<object, devices, status_file, control, clock, driver,
                   fault, faulty, reader, store>>

\* -------------------------------------------------------- RTMPStreamer.cleanup
\* lines 229-230: if self.camera: if self.streaming:
cleanup_guard(t) ==
    /\ At(t, "cleanup", "u229")
    /\ Goto(t, IF camera = 0 THEN "u235" ELSE IF streaming THEN "u231" ELSE "u232")
    /\ UNCHANGED <<object, devices, status_file, ret, control, clock, driver,
                   fault, faulty, reader, store>>

\* cleanup without its try: a release call that raises leaves cleanup and
\* its caller
ReleaseRaises(t, op, next) ==
    \/ /\ camera # 0
       /\ cams' = [cams EXCEPT ![camera] =
                      [@ EXCEPT ![op] = @ + 1,
                                !.open = IF op = "close" THEN FALSE ELSE @]]
       /\ proc' = IF op = "stop_recording" /\ proc = "running" THEN "stopped" ELSE proc
       /\ Goto(t, next)
       /\ NoFailure
       /\ UNCHANGED ret
    \/ /\ UNCHANGED cams
       /\ Failed(op)
       /\ stack' = [stack EXCEPT ![t] = Pop(Pop(@))]
       /\ ret' = [ret EXCEPT ![t] = "None"]
       /\ UNCHANGED proc

\* A release call on self.camera: counted on the device it reaches; on None
\* (AttributeError) or when the call raises, lines 236-237 log and return.
Release(t, op, next) ==
    \/ /\ camera # 0
       /\ cams' = [cams EXCEPT ![camera] =
                      [@ EXCEPT ![op] = @ + 1,
                                !.open = IF op = "close" THEN FALSE ELSE @]]
       /\ proc' = IF op = "stop_recording" /\ proc = "running" THEN "stopped" ELSE proc
       /\ Goto(t, next)
       /\ NoFailure
       /\ UNCHANGED ret
    \/ /\ IF camera # 0
          THEN cams' = [cams EXCEPT ![camera] = [@ EXCEPT ![op] = @ + 1]]
          ELSE UNCHANGED cams
       /\ Failed(op)
       /\ Return(t, "None")
       /\ UNCHANGED proc

\* line 231: self.camera.stop_recording()
cleanup_stop_recording(t) ==
    /\ At(t, "cleanup", "u231")
    /\ Release(t, "stop_recording", "u232")
    /\ UNCHANGED <<object, status_file, control, clock, driver, reader, store>>

\* line 232: self.camera.stop()
cleanup_stop(t) ==
    /\ At(t, "cleanup", "u232")
    /\ Release(t, "stop", "u233")
    /\ UNCHANGED <<object, status_file, control, clock, driver, reader, store>>

\* line 233: self.camera.close()
cleanup_close(t) ==
    /\ At(t, "cleanup", "u233")
    /\ Release(t, "close", "u234")
    /\ UNCHANGED <<object, status_file, control, clock, driver, reader, store>>

\* line 234: self.camera = None
cleanup_forget_camera(t) ==
    /\ At(t, "cleanup", "u234")
    /\ camera' = 0
    /\ Goto(t, "u235")
    /\ UNCHANGED <<config, output, streaming, start_time, devices, status_file, ret,
                   control, clock, driver, fault, faulty, reader, store>>

\* line 235: self.output = None
cleanup_forget_output(t) ==
    /\ At(t, "cleanup", "u235")
    /\ output' = "none"
    /\ Return(t, "None")
    /\ UNCHANGED <<config, camera, streaming, start_time, devices, status_file,
                   control, clock, driver, fault, faulty, reader, store>>

\* --------------------------------------------------- RTMPStreamer.write_status
\* line 242: "streaming": self.streaming
write_status_read_streaming(t) ==
    /\ At(t, "write_status", "w242")
    /\ stack' = [stack EXCEPT ![t] =
                    SetTop(@, [Top(t) EXCEPT !.pc = "w243", !.st.streaming = streaming])]
    /\ UNCHANGED <<object, devices, status_file, ret, control, clock, driver,
                   fault, faulty, reader, store>>

\* lines 243-247: start_time, uptime_seconds, resolution, framerate, bitrate
write_status_read_rest(t) ==
    /\ At(t, "write_status", "w243")
    /\ stack' = [stack EXCEPT ![t] =
                    SetTop(@, [Top(t) EXCEPT
                        !.pc = "w252",
                        !.st.start_time = start_time,
                        !.st.uptime = IF start_time # 0 THEN clock - start_time ELSE 0,
                        !.st.resolution = config.resolution,
                        !.st.framerate = config.framerate,
                        !.st.bitrate = config.bitrate])]
    /\ UNCHANGED <<object, devices, status_file, ret, control, clock, driver,
                   fault, faulty, reader, store>>

\* write_status whose failed open ends the session
write_status_open_fatal(t) ==
    /\ At(t, "write_status", "w252")
    /\ \/ /\ status_file' = [exists |-> TRUE, flushed |-> <<>>]
          /\ Goto(t, "w253")
          /\ NoFailure
          /\ UNCHANGED <<ret, streaming>>
       \/ /\ Failed("open")
          /\ Return(t, "None")
          /\ streaming' = FALSE
          /\ UNCHANGED status_file
    /\ UNCHANGED <<config, camera, output, start_time, devices, control, clock, driver,
                   reader, store>>

\* line 252: open(status_file, 'w') truncates the file; a raise is logged
\* (lines 254-255) and write_status returns
write_status_open(t) ==
    /\ At(t, "write_status", "w252")
    /\ \/ /\ status_file' = [exists |-> TRUE, flushed |-> <<>>]
          /\ Goto(t, "w253")
          /\ NoFailure
          /\ UNCHANGED ret
       \/ /\ Failed("open")
          /\ Return(t, "None")
          /\ UNCHANGED status_file
    /\ UNCHANGED <<object, devices, control, clock, driver, reader, store>>

\* line 253: json.dump writes the next chunk into the file object's buffer
write_status_dump(t) ==
    /\ At(t, "write_status", "w253")
    /\ Top(t).k < Len(StatusChunks(Top(t).st))
    /\ stack' = [stack EXCEPT ![t] = SetTop(@, [Top(t) EXCEPT !.k = @ + 1])]
    /\ UNCHANGED <<object, devices, status_file, ret, control, clock, driver,
                   fault, faulty, reader, store>>

\* The file object of frame f is closed: its buffer goes to the file at
\* offset 0 (an empty buffer writes nothing).
Close(f) ==
    status_file' = IF f.k = 0 THEN status_file
                   ELSE [status_file EXCEPT !.flushed = Append(@, [st |-> f.st, k |-> f.k])]

\* the end of the with block (line 253): f.close()
write_status_close(t) ==
    /\ At(t, "write_status", "w253")
    /\ Top(t).k = Len(StatusChunks(Top(t).st))
    /\ Close(Top(t))
    /\ Return(t, "None")
    /\ UNCHANGED <<object, devices, control, clock, driver, fault, faulty, reader,
                   store>>

\* ------------------------------------------------- RTMPStreamer.signal_handler
\* SIGTERM or SIGINT (lines 30-31): Python runs the handler on the main
\* thread, between two statements of whatever it is executing.
signal_arrives ==
    /\ ~exited
    /\ exc = "none"
    /\ stack["main"] # <<>>
    /\ signals < MaxSignals
    /\ signals' = signals + 1
    /\ stack' = [stack EXCEPT !["main"] = Append(@, Frame("signal_handler", "h260"))]
    /\ UNCHANGED <<object, devices, status_file, ret, exc, exited, clock, driver,
                   fault, faulty, reader, store>>

\* line 260: self.stop_stream()
signal_handler_stop(t) ==
    /\ At(t, "signal_handler", "h260")
    /\ Call(t, "stop_stream", "h261")
    /\ UNCHANGED <<object, devices, status_file, ret, control, clock, driver,
                   fault, faulty, reader, store>>

\* line 261: sys.exit(0) raises SystemExit
signal_handler_exit(t) ==
    /\ At(t, "signal_handler", "h261")
    /\ exc' = "SystemExit"
    /\ UNCHANGED <<object, devices, status_file, stack, ret, exited, signals, clock,
                   driver, fault, faulty, reader, store>>

\* ------------------------------------------------- SystemExit leaves the frames
\* SystemExit is no Exception: no except clause of the class catches it.
Unwinding == ~exited /\ exc = "SystemExit" /\ stack["main"] # <<>>
InWith(f) == f.fn = "write_status" /\ f.pc = "w253"
InTry(f) == f.fn = "run" /\ f.pc \in {"r274", "r276"}

\* out of the with block of write_status (line 252): the file is closed
unwind_with ==
    /\ Unwinding
    /\ InWith(Top("main"))
    /\ Close(Top("main"))
    /\ stack' = [stack EXCEPT !["main"] = Pop(@)]
    /\ UNCHANGED <<object, devices, ret, control, clock, driver, fault, faulty, reader,
                   store>>

\* into the finally block of run (line 279)
unwind_finally ==
    /\ Unwinding
    /\ InTry(Top("main"))
    /\ exc' = "none"
    /\ stack' = [stack EXCEPT !["main"] = SetTop(@, [Top("main") EXCEPT !.pc = "r280"])]
    /\ UNCHANGED <<object, devices, status_file, ret, exited, signals, clock, driver,
                   fault, faulty, reader, store>>

\* out of any other frame; out of the last one, the process ends (its
\* frame is kept to tell where)
unwind_frame ==
    /\ Unwinding
    /\ ~InWith(Top("main"))
    /\ ~InTry(Top("main"))
    /\ IF Len(stack["main"]) = 1
       THEN exited' = TRUE /\ UNCHANGED stack
       ELSE stack' = [stack EXCEPT !["main"] = Pop(@)] /\ UNCHANGED exited
    /\ UNCHANGED <<object, devices, status_file, ret, exc, signals, clock, driver,
                   fault, faulty, reader, store>>

\* ------------------------------------------------------- the publish process
\* ffmpeg exits or loses the endpoint; nothing in the class reads its state.
publish_exit ==
    /\ ~exited
    /\ proc = "running"
    /\ proc' = "exited"
    /\ UNCHANGED <<object, cams, status_file, stack, ret, control, clock, driver,
                   fault, faulty, reader, store>>

\* ------------------------------------------- dashboard.get_stream_status
\* lines 59-79, in the dashboard's own process: one read of the whole file.
get_stream_status ==
    /\ reads < MaxReads
    /\ reads' = reads + 1
    /\ LET obj == Load(Text(status_file)) IN
       seen' = IF status_file.exists /\ obj.ok
               THEN [from |-> "file", file |-> status_file,
                     uptime |-> IF obj.streaming[1] = "true" /\ obj.start_time[1] = "ts"
                                THEN clock - obj.start_time[2] ELSE 0]
               ELSE [from |-> "default", file |-> status_file, uptime |-> 0]
    /\ UNCHANGED <<object, devices, status_file, stack, ret, control, clock, driver,
                   fault, faulty, store>>

\* ------------------------------------------------------ the control surface
\* A caller of the object's start and stop operations (spec section 6:
\* start(), stop()), one request after the other.
request_start(t) ==
    /\ At(t, "client", "idle")
    /\ calls < MaxCalls
    /\ calls' = calls + 1
    /\ req' = [req EXCEPT ![t] = "start"]
    /\ fault' = "none"
    /\ Call(t, "start_stream", "idle")
    /\ UNCHANGED <<object, devices, status_file, ret, control, clock, faulty, reader,
                   store>>

request_stop(t) ==
    /\ At(t, "client", "idle")
    /\ calls < MaxCalls
    /\ calls' = calls + 1
    /\ req' = [req EXCEPT ![t] = "stop"]
    /\ fault' = "none"
    /\ Call(t, "stop_stream", "idle")
    /\ UNCHANGED <<object, devices, status_file, ret, control, clock, faulty, reader,
                   store>>

\* ------------------------------------------------------ RTMPStreamer.__init__
\* The config files the orchestrator is started on.
Files ==
    { NoFile, File("empty", <<>>), File("garbage", <<>>), File("scalar", <<>>),
      File("object", <<>>),
      File("object", <<Member("bitrate", 1000000)>>),
      File("object", <<Member("stream_key", "")>>),
      File("array", <<>>),
      File("array", <<Scalar>>),
      File("array", <<Member("bitrate", 1000000)>>),
      File("array", <<Member("gop_size", 30), Scalar>>),
      File("array", <<Scalar, Member("bitrate", 1000000)>>) }

\* line 22: self.config = self.load_config(); open() may raise on a file
\* that exists
new_streamer(t) ==
    /\ At(t, "client", "new")
    /\ \E readable \in BOOLEAN :
          /\ readable \/ config_file.kind # "absent"
          /\ config' = load_config(config_file, readable)
          /\ IF readable THEN NoFailure ELSE Failed("open")
    /\ Goto(t, "idle")
    /\ UNCHANGED <<camera, output, streaming, start_time, devices, status_file, ret,
                   control, clock, driver, reader, store>>

\* ---------------------------------------------------- RTMPStreamer.save_config
\* line 62: self.config.update(new_config)
save_config_update(t) ==
    /\ At(t, "save_config", "v62")
    /\ config' = Update(config, Top(t).arg, Len(Top(t).arg))
    /\ Goto(t, "v63")
    /\ UNCHANGED <<camera, output, streaming, start_time, devices, status_file, ret,
                   control, clock, driver, fault, faulty, reader, store>>

\* line 63: os.makedirs(...); a raise goes to line 68
save_config_makedirs(t) ==
    /\ At(t, "save_config", "v63")
    /\ \/ Goto(t, "v64") /\ NoFailure
       \/ Goto(t, "v69") /\ Failed("makedirs")
    /\ UNCHANGED <<object, devices, status_file, ret, control, clock, driver, reader,
                   store>>

\* line 64: open(self.config_file, 'w') truncates the file
save_config_open(t) ==
    /\ At(t, "save_config", "v64")
    /\ \/ /\ config_file' = File("empty", <<>>)
          /\ Goto(t, "v65")
          /\ NoFailure
       \/ /\ Failed("open")
          /\ Goto(t, "v69")
          /\ UNCHANGED config_file
    /\ UNCHANGED <<object, devices, status_file, ret, control, clock, driver, reader,
                   builds, before, reply>>

\* line 65: json.dump(self.config, f, indent=2) and the end of the with
\* block; when a write fails the file keeps what had reached it
save_config_dump(t) ==
    /\ At(t, "save_config", "v65")
    /\ \/ /\ config_file' = DumpConfig(config)
          /\ Goto(t, "v67")
          /\ NoFailure
       \/ /\ \E kind \in {"empty", "garbage"} : config_file' = File(kind, <<>>)
          /\ Failed("dump")
          /\ Goto(t, "v69")
    /\ UNCHANGED <<object, devices, status_file, ret, control, clock, driver, reader,
                   builds, before, reply>>

\* lines 66-67: return True
save_config_return(t) ==
    /\ At(t, "save_config", "v67")
    /\ Return(t, "True")
    /\ UNCHANGED <<object, devices, status_file, control, clock, driver,
                   fault, faulty, reader, store>>

\* lines 68-70: except Exception: return False
save_config_except(t) ==
    /\ At(t, "save_config", "v69")
    /\ Return(t, "False")
    /\ UNCHANGED <<object, devices, status_file, control, clock, driver,
                   fault, faulty, reader, store>>

SaveSteps(t) ==
    \/ save_config_update(t) \/ save_config_makedirs(t) \/ save_config_open(t)
    \/ save_config_dump(t) \/ save_config_return(t) \/ save_config_except(t)

\* ------------------------------------------------------ dashboard.api_config
\* The bodies posted to /api/config.
Posts ==
    { <<Member("stream_key", "abc"), Member("bitrate", 1000000)>>,
      <<Member("stream_key", "")>>,
      <<Member("bitrate", 1000000)>> }

\* lines 223-237 with save_config (lines 177-186), in the dashboard's own
\* process: a body without a stream key is answered 400; else the body
\* replaces the config file (200), or the write fails (500).
api_config ==
    /\ At("main", "client", "idle")
    /\ calls < MaxCalls
    /\ calls' = calls + 1
    /\ req' = [req EXCEPT !["main"] = "post"]
    /\ before' = [config |-> config, config_file |-> config_file]
    /\ \E body \in Posts :
          IF Get(body, "stream_key", Len(body)) = ""
          THEN /\ reply' = [code |-> 400, body |-> body]
               /\ UNCHANGED config_file
          ELSE \/ /\ reply' = [code |-> 200, body |-> body]
                  /\ config_file' = File("object", body)
               \/ /\ reply' = [code |-> 500, body |-> body]
                  /\ \E f \in {config_file, File("empty", <<>>), File("garbage", <<>>)} :
                        config_file' = f
    /\ UNCHANGED <<object, devices, status_file, stack, ret, control, clock,
                   fault, faulty, reader, builds>>

\* -------------------------------------- the control surface: configuration
\* The partial configurations handed to save_config (spec section 6:
\* set_config(partial)).
Partials ==
    { <<Member("bitrate", 1000000)>>,
      <<Member("stream_key", "")>>,
      <<Member("gop_size", 30), Member("audio_enabled", TRUE)>> }

request_save(t) ==
    /\ At(t, "client", "idle")
    /\ calls < MaxCalls
    /\ calls' = calls + 1
    /\ req' = [req EXCEPT ![t] = "save"]
    /\ before' = [config |-> config, config_file |-> config_file]
    /\ fault' = "none"
    /\ \E partial \in Partials :
          stack' = [stack EXCEPT ![t] =
                       Append(@, [Frame("save_config", Entry("save_config"))
                                     EXCEPT !.arg = partial])]
    /\ UNCHANGED <<object, devices, status_file, ret, control, clock, faulty, reader,
                   config_file, builds, reply>>

\* a call of build_ffmpeg_command on the object
request_build(t) ==
    /\ At(t, "client", "idle")
    /\ calls < MaxCalls
    /\ calls' = calls + 1
    /\ req' = [req EXCEPT ![t] = "build"]
    /\ builds' = Built(config)
    /\ UNCHANGED <<object, devices, status_file, stack, ret, control, clock,
                   fault, faulty, reader, config_file, before, reply>>

\* ------------------------------------------------------------ specifications
\* The program: RTMPStreamer().run() (lines 282-284), signals, the publish
\* process and the dashboard reading the status file.
Next ==
    \/ run_start("main") \/ run_started("main") \/ run_loop("main")
    \/ run_sleep("main") \/ run_finally("main") \/ run_end("main")
    \/ start_stream_guard("main") \/ start_stream_setup("main")
    \/ start_stream_setup_done("main") \/ start_stream_output("main")
    \/ start_stream_camera_start("main") \/ start_stream_warmup("main")
    \/ start_stream_recording("main") \/ start_stream_set_streaming("main")
    \/ start_stream_set_start_time("main") \/ start_stream_write_status("main")
    \/ start_stream_return("main") \/ start_stream_except("main")
    \/ start_stream_failed("main")
    \/ setup_camera_open("main") \/ setup_camera_configure("main")
    \/ stop_stream_guard("main") \/ stop_stream_cleanup("main")
    \/ stop_stream_clear_streaming("main") \/ stop_stream_clear_start_time("main")
    \/ stop_stream_write_status("main") \/ stop_stream_return("main")
    \/ cleanup_guard("main") \/ cleanup_stop_recording("main") \/ cleanup_stop("main")
    \/ cleanup_close("main") \/ cleanup_forget_camera("main")
    \/ cleanup_forget_output("main")
    \/ write_status_read_streaming("main") \/ write_status_read_rest("main")
    \/ write_status_open("main") \/ write_status_dump("main")
    \/ write_status_close("main")
    \/ signal_arrives \/ signal_handler_stop("main") \/ signal_handler_exit("main")
    \/ unwind_with \/ unwind_finally \/ unwind_frame

Spec == Init /\ [][Next]_vars

\* The statements of start_stream, setup_camera, cleanup and write_status.
StartSteps(t) ==
    \/ start_stream_guard(t) \/ start_stream_setup(t)
    \/ start_stream_setup_done(t) \/ start_stream_output(t)
    \/ start_stream_camera_start(t) \/ start_stream_warmup(t)
    \/ start_stream_recording(t) \/ start_stream_set_streaming(t)
    \/ start_stream_set_start_time(t) \/ start_stream_write_status(t)
    \/ start_stream_return(t) \/ start_stream_except(t)
    \/ start_stream_failed(t)
    \/ setup_camera_open(t) \/ setup_camera_configure(t)
    \/ cleanup_guard(t) \/ cleanup_stop(t)
    \/ cleanup_close(t) \/ cleanup_forget_camera(t)
    \/ cleanup_forget_output(t)
    \/ write_status_read_streaming(t) \/ write_status_read_rest(t)
    \/ write_status_open(t) \/ write_status_dump(t)
    \/ write_status_close(t)

\* The statements of stop_stream.
StopSteps(t) ==
    \/ stop_stream_guard(t) \/ stop_stream_cleanup(t)
    \/ stop_stream_clear_streaming(t) \/ stop_stream_clear_start_time(t)
    \/ stop_stream_write_status(t) \/ stop_stream_return(t)
    \/ cleanup_stop_recording(t)

\* The control surface: start and stop requests on the one object, in any
\* order, one at a time.
InitApi ==
    Constructed([t \in Threads |-> IF t = "main" THEN <<Frame("client", "idle")>>
                                   ELSE <<>>])
NextApi ==
    \/ request_start("main") \/ request_stop("main")
    \/ StartSteps("main") \/ StopSteps("main")
SpecApi == InitApi /\ [][NextApi]_vars

\* Start requests issued by two threads on the one object.
InitConc == Constructed([t \in Threads |-> <<Frame("client", "idle")>>])
NextConc == \E t \in Threads : request_start(t) \/ StartSteps(t)
SpecConc == InitConc /\ [][NextConc]_vars

\* The program left alone by signals, with its publish process; the main
\* thread keeps running.
Running ==
    \/ run_start("main") \/ run_started("main") \/ run_loop("main")
    \/ run_sleep("main") \/ StartSteps("main")
NextFair == Running \/ publish_exit
FairSpec == Init /\ [][NextFair]_vars /\ WF_vars(Running)

\* The program left alone by signals, and the dashboard reading its status.
NextDashboard == Running \/ get_stream_status
SpecDashboard == Init /\ [][NextDashboard]_vars

\* The configuration: RTMPStreamer() on a config file, then saves, builds of
\* the command, and posts to the dashboard, one at a time.
InitConfig ==
    /\ config_file \in Files
    /\ Started([t \in Threads |-> IF t = "main" THEN <<Frame("client", "new")>>
                                   ELSE <<>>])
NextConfig ==
    \/ new_streamer("main")
    \/ request_save("main") \/ SaveSteps("main")
    \/ request_build("main")
    \/ api_config
SpecConfig == InitConfig /\ [][NextConfig]_vars

\* The program, and a second thread saving configurations on its object.
InitSave ==
    Constructed([t \in Threads |-> IF t = "main" THEN <<Frame("run", Entry("run"))>>
                                   ELSE <<Frame("client", "idle")>>])
NextSave ==
    \/ Running
    \/ calls < MaxSaves /\ request_save("api")
    \/ SaveSteps("api")
SpecSave == InitSave /\ [][NextSave]_vars

\* ------------------------------------------------------------------ claims
Held == {i \in 1..Len(cams) : cams[i].open}

\* C1: when a termination signal has arrived, in whatever state, the process
\* does not end while a capture device is still held (stated for the runs
\* in which no external call failed).
C1_SignalReleasesDevice ==
    (exited /\ signals > 0 /\ ~faulty) => Held = {}

\* The status file as a reader parses it.
OnDisk == IF status_file.exists THEN Load(Text(status_file)) ELSE NoObject
ShowsStreaming(o) == o.ok /\ o.streaming[1] = "true" /\ o.start_time[1] = "ts"
ShowsIdle(o) == o.ok /\ o.streaming[1] = "false" /\ o.start_time[1] = "null"

\* C2: when start_stream has returned True the status file shows
\* streaming=true and a start timestamp; when a termination signal has ended
\* that session (run() is left through its finally block) the status file
\* shows streaming=false and no start timestamp (stated for the runs in
\* which no external call failed).
C2_StatusFollowsSession ==
    /\ (At("main", "run", "r269") /\ ret["main"] = "True" /\ ~faulty)
          => ShowsStreaming(OnDisk)
    /\ (exited /\ Top("main").pc = "r281" /\ ~faulty) => ShowsIdle(OnDisk)

\* C4: each release operation is performed at most once on each capture
\* device (stated for the runs in which no external call failed).
C4_ReleasedAtMostOnce ==
    ~faulty => \A i \in 1..Len(cams) :
                  cams[i].stop_recording <= 1 /\ cams[i].stop <= 1 /\ cams[i].close <= 1

\* The driver of thread t has its answer to request r.
Answered(t, r) == At(t, "client", "idle") /\ req[t] = r

\* C3: a start request during which the capture device could not be opened,
\* or was opened and could not be configured, returns False and leaves the
\* session Idle with no capture device and no publish output held.
C3_FailedAcquisitionLeavesIdle ==
    (Answered("main", "start") /\ fault \in {"Picamera2", "configure"})
        => /\ ret["main"] = "False"
           /\ ~streaming
           /\ camera = 0
           /\ output = "none"

\* Thread t returns False from the call on top of its stack.
Rejects(t) == stack'[t] = Pop(stack[t]) /\ ret'[t] = "False"

\* C5: a start request made while streaming returns False at once and
\* changes neither the camera handle, the output handle, the streaming flag,
\* the start timestamp, nor the devices (none is acquired) or the status file.
C5_StartWhileStreamingRejected ==
    [][(At("main", "start_stream", "s168") /\ streaming /\ stack' # stack)
          => (Rejects("main") /\ UNCHANGED <<object, devices, status_file>>)]_vars

\* C5 witness: a start request was answered False while the session streams.
C5_Witness ==
    /\ Answered("main", "start") /\ ret["main"] = "False" /\ fault = "none"
    /\ streaming /\ start_time # 0 /\ camera # 0

\* C6: a stop request made while Idle returns False at once, writes no
\* status file and changes no field of the session.
C6_StopWhileIdleRejected ==
    [][(At("main", "stop_stream", "t209") /\ ~streaming /\ stack' # stack)
          => (Rejects("main") /\ UNCHANGED <<object, devices, status_file>>)]_vars

\* C6 witness: a stop request was answered False while the session is Idle.
C6_Witness ==
    /\ Answered("main", "stop") /\ ret["main"] = "False" /\ ~streaming

\* Thread t is inside start_stream, past its guard.
Starting(t) ==
    \E i \in 1..Len(stack[t]) :
        stack[t][i].fn = "start_stream" /\ stack[t][i].pc # "s168"

\* C7: of two concurrent start requests only one gets past the guard (the
\* other is rejected as already active), so never more than one capture
\* device is held.
C7_OneStartAtATime ==
    /\ Cardinality({t \in Threads : Starting(t)}) <= 1
    /\ Cardinality(Held) <= 1

\* C8: when the publish process has exited while the session streams, the
\* session eventually stops streaming, no stop request or signal needed.
C8_FaultEndsSession == (streaming /\ proc = "exited") ~> ~streaming

\* C9: what the dashboard reads from an existing status file is the whole
\* text of a snapshot that was written, never an empty or partial file.
C9_ReaderSeesWholeSnapshot ==
    (seen.from # "none" /\ seen.file.exists)
        => /\ seen.file.flushed # <<>>
           /\ Text(seen.file) = Dump(seen.file.flushed[Len(seen.file.flushed)].st)

\* C10: every status snapshot on disk with streaming true has a start
\* timestamp (stated for the runs in which no external call failed).
C10_StreamingHasStartTime ==
    (~faulty /\ OnDisk.ok /\ OnDisk.streaming[1] = "true")
        => OnDisk.start_time[1] = "ts"

\* C11: a save whose resulting stream key is empty fails and leaves the
\* config file as it was, through save_config of the orchestrator and
\* through the dashboard's POST /api/config alike.
C11_EmptyKeySaveRejected ==
    /\ (Answered("main", "save") /\ config.stream_key = "")
       => (ret["main"] = "False" /\ config_file = before.config_file)
    /\ (Answered("main", "post") /\ Get(reply.body, "stream_key", Len(reply.body)) = "")
       => (reply.code = 400 /\ config_file = before.config_file)

\* C12: started on a config file that is missing, unreadable or holds
\* anything but a JSON object, the orchestrator has the default configuration,
\* every field at its default.
C12_BadConfigLoadsDefaults ==
    (At("main", "client", "idle") /\ calls = 0
        /\ (config_file.kind # "object" \/ fault = "open"))
    => config = DefaultConfig

\* C13: the status file never holds a stored uptime: a snapshot on disk has
\* no uptime_seconds member.
C13_NoStoredUptime == OnDisk.ok => OnDisk.uptime_seconds = Absent

\* The argument that follows the option `name` in a command.
Option(cmd, name) == cmd[(CHOOSE i \in 1..Len(cmd) : cmd[i] = Word(name)) + 1]

C16_FailedStartKeepsProcess ==
    (signals = 0
        /\ fault \in {"Picamera2", "configure", "FfmpegOutput", "start", "start_recording"})
    => ~exited

C18_StatusReportsSessionConfig ==
    (OnDisk.ok /\ OnDisk.streaming[1] = "true" /\ builds # <<>>)
    => OnDisk.bitrate[2] = IntOf(Option(builds[Len(builds)].cmd, "-b:v").digits)

\* The main thread is in a tick of the loop of run: at the loop test, in the
\* write_status it calls, or at its sleep.
InTick ==
    /\ ~exited
    /\ stack["main"] # <<>>
    /\ \/ Top("main").fn = "run" /\ Top("main").pc \in {"r274", "r276"}
       \/ /\ Len(stack["main"]) = 2
          /\ stack["main"][1].fn = "run" /\ stack["main"][1].pc = "r276"
          /\ Top("main").fn = "write_status"

\* The status dict of the object's fields as they are.
Snapshot ==
    [streaming |-> streaming, start_time |-> start_time,
     uptime |-> IF start_time # 0 THEN clock - start_time ELSE 0,
     resolution |-> config.resolution, framerate |-> config.framerate,
     bitrate |-> config.bitrate]

\* C19: while streaming, no step of a tick changes the configuration, the
\* camera, the output, the streaming flag or the start time, the status write
\* failing or not; and the write that completes leaves the current snapshot
\* in the status file.
C19_TickOnlyWritesStatus ==
    [][(InTick /\ streaming /\ stack' # stack)
       => /\ UNCHANGED <<config, camera, output, streaming, start_time>>
          /\ (Top("main").fn = "write_status" /\ Len(stack'["main"]) = 1
                 /\ status_file' # status_file)
             => Text(status_file') = Dump(Snapshot)]_vars

\* the loop has passed a tick whose status write failed
C19_Witness ==
    /\ At("main", "run", "r276")
    /\ streaming /\ fault = "open" /\ ~status_file.exists

\* C20: a save that returned False leaves self.config as it was before the
\* request.
C20_FailedSaveKeepsConfig ==
    (Answered("main", "save") /\ ret["main"] = "False") => config = before.config

====
